---- MODULE Spec2Model ----
(***************************************************************************)
(* A model of the movie-list scraper (src/tempCodeRunnerFile.py).          *)
(*                                                                         *)
(* A text is a sequence of Unicode code points.  A page is what the site   *)
(* serves: the texts of its <h3 class="title"> nodes and of its <p> nodes, *)
(* both in document order.  A file is a record [exists, content].          *)
(***************************************************************************)
EXTENDS Integers, Sequences, FiniteSets, TLC

VARIABLES
    page,           \* what the site serves now
    cache,          \* the file CACHE_FILE
    out,            \* the file args.output
    args,           \* the parsed command line of the current run
    pc,             \* where main() is
    entries,        \* main's local `entries`
    descriptions,   \* main's local `descriptions`
    sorted_list,    \* main's local `sorted_list`
    console,        \* what display_list printed in this run
    status,         \* exit status of the run (-1 while it runs)
    updated,        \* what check_for_updates returned in this run
    content_hash,   \* check_for_updates' local `content_hash` (<<>>: not computed)
    log,            \* the run's requests and cache-file operations, in order
    history,        \* the check_for_updates calls that returned: bytes fetched, result
    cache0,         \* CACHE_FILE as it was when the run started
    out0,           \* args.output as it was when the run started
    runs            \* number of runs started

vars == <<page, cache, out, args, pc, entries, descriptions, sorted_list,
          console, status, updated, content_hash, log, history, cache0, out0,
          runs>>

(***************************************************************************)
(* Bounds of the model.                                                    *)
(***************************************************************************)
MaxLen == 3
MaxRuns == 2

(***************************************************************************)
(* Texts used as inputs.                                                   *)
(***************************************************************************)
TitleTexts == { <<67>>, <<66>>, <<65>>, <<10, 32, 97, 32>> }   \* "C", "B", "A", "\n a "
DescTexts == { <<100, 67>>, <<100, 66>>, <<32, 100, 65>> }    \* "dC", "dB", " dA"
Keywords == { <<>>, <<98>>, <<32, 65>> }                      \* no filter, "b", " A"

SeqsUpTo(S, n) == UNION { [1..k -> S] : k \in 0..n }

NoFile == [exists |-> FALSE, content |-> <<>>]
File(c) == [exists |-> TRUE, content |-> c]

(***************************************************************************)
(* Python built-ins used by the program.                                   *)
(***************************************************************************)
Min(a, b) == IF a <= b THEN a ELSE b

\* str.lower(), on the ASCII and Latin-1 letters
lower(s) ==
    [i \in 1..Len(s) |->
        IF s[i] \in 65..90 \/ (s[i] \in 192..222 /\ s[i] # 215)
        THEN s[i] + 32 ELSE s[i]]

\* str.isspace() of one character
IsSpace(c) ==
    \/ c \in {9, 10, 11, 12, 13, 28, 29, 30, 31, 32, 133, 160}
    \/ c \in {5760, 8232, 8233, 8239, 8287, 12288}
    \/ c \in 8192..8202

\* str.strip()
strip(s) ==
    LET keep == {i \in 1..Len(s) : ~IsSpace(s[i])}
    IN  IF keep = {} THEN <<>>
        ELSE LET first == CHOOSE i \in keep : \A j \in keep : i <= j
                 last == CHOOSE i \in keep : \A j \in keep : j <= i
             IN  SubSeq(s, first, last)

\* k in s
Contains(k, s) ==
    \E i \in 0..(Len(s) - Len(k)) : SubSeq(s, i + 1, i + Len(k)) = k

\* a < b on str: by code point, a proper prefix first
StrLess(a, b) ==
    \E i \in 1..(Min(Len(a), Len(b)) + 1) :
        /\ \A j \in 1..(i - 1) : a[j] = b[j]
        /\ \/ i = Len(a) + 1 /\ i <= Len(b)
           \/ i <= Len(a) /\ i <= Len(b) /\ a[i] < b[i]

\* s[::-1]
reversed(s) == [i \in 1..Len(s) |-> s[Len(s) + 1 - i]]

\* zip(a, b)
zip(a, b) == [i \in 1..Min(Len(a), Len(b)) |-> <<a[i], b[i]>>]

\* str(n) for n >= 0
RECURSIVE str(_)
str(n) == IF n < 10 THEN <<48 + n>> ELSE str(n \div 10) \o <<48 + (n % 10)>>

\* the hexadecimal digit d
Hex(d) == IF d < 10 THEN 48 + d ELSE 87 + d

RECURSIVE Flatten(_)
Flatten(ss) == IF ss = <<>> THEN <<>> ELSE Head(ss) \o Flatten(Tail(ss))

(***************************************************************************)
(* The site and the digest of its content.                                 *)
(***************************************************************************)
Page(t, d) == [titles |-> t, descs |-> d]

\* response.content: every title node as "<h" text, every paragraph as "<p" text
content(p) ==
    Flatten([i \in 1..Len(p.titles) |-> <<60, 104>> \o p.titles[i]])
    \o Flatten([i \in 1..Len(p.descs) |-> <<60, 112>> \o p.descs[i]])

\* hashlib.md5(bytes).hexdigest(): a fixed-width digest, a function of the bytes
\* alone.  The digest is a 16-bit polynomial hash here: what the program relies
\* on is only that equal bytes give equal digests.
RECURSIVE md5_update(_, _)
md5_update(h, bytes) ==
    IF bytes = <<>> THEN h
    ELSE md5_update((h * 31 + Head(bytes)) % 65536, Tail(bytes))

\* the digest in hexadecimal, as hexdigest() gives it
md5(bytes) ==
    LET h == md5_update(7, bytes)
    IN  <<Hex(h \div 4096), Hex((h \div 256) % 16), Hex((h \div 16) % 16), Hex(h % 16)>>

\* The pages the site serves in the whole-program specification.
\* 8211 is the en dash, a character ISO-8859-1 cannot encode.
Pages ==
    { Page(<<<<67>>, <<65>>>>, <<<<100, 67>>, <<32, 100, 65>>>>),
      Page(<<<<8211>>, <<66>>>>, <<<<100>>, <<100, 66>>>>) }

(***************************************************************************)
(* sort_entries                                                            *)
(***************************************************************************)
\* the order list.sort(key=...) sorts by
KeyLess(sort_by, a, b) ==
    IF sort_by = "title" THEN StrLess(a.title, b.title) ELSE a.rank < b.rank

\* list.sort(key=..., reverse=True) in place of list.sort(key=...)
list_sort_descending(movies, sort_by) ==
    LET n == Len(movies)
        before(j, i) ==
            \/ KeyLess(sort_by, movies[i], movies[j])
            \/ ~KeyLess(sort_by, movies[j], movies[i]) /\ j < i
        pos(i) == Cardinality({j \in 1..n : j # i /\ before(j, i)}) + 1
    IN  [p \in 1..n |-> movies[CHOOSE i \in 1..n : pos(i) = p]]

\* list.sort(key=...): ascending and stable
list_sort(movies, sort_by) ==
    LET n == Len(movies)
        before(j, i) ==
            \/ KeyLess(sort_by, movies[j], movies[i])
            \/ ~KeyLess(sort_by, movies[i], movies[j]) /\ j < i
        pos(i) == Cardinality({j \in 1..n : j # i /\ before(j, i)}) + 1
    IN  [p \in 1..n |-> movies[CHOOSE i \in 1..n : pos(i) = p]]

\* the loop of sort_entries without the two reversals
build_movies_page_order(es, ds) ==
    LET z == zip(es, ds)
    IN  [i \in 1..Len(z) |->
            [rank |-> i, title |-> strip(z[i][1]), description |-> strip(z[i][2])]]

\* the loop of sort_entries reversing after pairing: reversed(zip(es, ds))
build_movies_zip_first(es, ds) ==
    LET z == reversed(zip(es, ds))
    IN  [i \in 1..Len(z) |->
            [rank |-> i, title |-> strip(z[i][1]), description |-> strip(z[i][2])]]

\* the loop of sort_entries: the list of records, before it is sorted
build_movies(es, ds) ==
    LET z == zip(reversed(es), reversed(ds))
    IN  [i \in 1..Len(z) |->
            [rank |-> i, title |-> strip(z[i][1]), description |-> strip(z[i][2])]]

sort_entries(es, ds, sort_by) ==
    LET movies == build_movies(es, ds)
    IN  IF sort_by \in {"title", "rank"} THEN list_sort(movies, sort_by) ELSE movies

\* the list comprehension of main comparing the title as it is written
filter_entries_case_sensitive(es, keyword) ==
    IF keyword # <<>>
    THEN SelectSeq(es, LAMBDA e : Contains(lower(keyword), e))
    ELSE es

\* the list comprehension of main, under `if args.filter:`
filter_entries(es, keyword) ==
    IF keyword # <<>>
    THEN SelectSeq(es, LAMBDA e : Contains(lower(keyword), lower(e)))
    ELSE es

(***************************************************************************)
(* save_file and display_list: the texts written, one per write call.      *)
(***************************************************************************)
Description == <<68, 101, 115, 99, 114, 105, 112, 116, 105, 111, 110, 58, 32>>

\* f"{movie['rank']}) {movie['title']}\nDescription: {movie['description']}\n\n"
txt_chunk(movie) ==
    str(movie.rank) \o <<41, 32>> \o movie.title \o <<10>>
    \o Description \o movie.description \o <<10, 10>>

\* csv's QUOTE_MINIMAL: a field holding the delimiter, the quote character or
\* a line break is quoted, its quote characters doubled
csv_field(t) ==
    IF \E i \in 1..Len(t) : t[i] \in {44, 34, 13, 10}
    THEN <<34>> \o Flatten([i \in 1..Len(t) |->
                     IF t[i] = 34 THEN <<34, 34>> ELSE <<t[i]>>]) \o <<34>>
    ELSE t

csv_row(fields) ==
    csv_field(fields[1]) \o <<44>> \o csv_field(fields[2]) \o <<44>>
    \o csv_field(fields[3]) \o <<13, 10>>

\* writer.writeheader(); writer.writerows(movies)
csv_chunks(movies) ==
    <<csv_row(<<<<114, 97, 110, 107>>, <<116, 105, 116, 108, 101>>,
                <<100, 101, 115, 99, 114, 105, 112, 116, 105, 111, 110>>>>)>>
    \o [i \in 1..Len(movies) |->
          csv_row(<<str(movies[i].rank), movies[i].title, movies[i].description>>)]

\* json's string encoding with ensure_ascii=False
json_string(t) ==
    <<34>> \o Flatten([i \in 1..Len(t) |->
        CASE t[i] = 34 -> <<92, 34>>
          [] t[i] = 92 -> <<92, 92>>
          [] t[i] = 10 -> <<92, 110>>
          [] t[i] = 13 -> <<92, 114>>
          [] t[i] = 9 -> <<92, 116>>
          [] t[i] = 8 -> <<92, 98>>
          [] t[i] = 12 -> <<92, 102>>
          [] t[i] < 32 /\ t[i] \notin {8, 9, 10, 12, 13} ->
                <<92, 117, 48, 48, Hex(t[i] \div 16), Hex(t[i] % 16)>>
          [] OTHER -> <<t[i]>>]) \o <<34>>

Indent(n) == [i \in 1..n |-> 32]

\* one record of json.dump(movies, f, ensure_ascii=False, indent=4), with the
\* separator that precedes it; the writes of one record are taken together
json_chunk(movie, first) ==
    (IF first THEN <<91, 10>> ELSE <<44, 10>>) \o Indent(4) \o <<123, 10>>
    \o Indent(8) \o json_string(<<114, 97, 110, 107>>) \o <<58, 32>>
    \o str(movie.rank) \o <<44, 10>>
    \o Indent(8) \o json_string(<<116, 105, 116, 108, 101>>) \o <<58, 32>>
    \o json_string(movie.title) \o <<44, 10>>
    \o Indent(8)
    \o json_string(<<100, 101, 115, 99, 114, 105, 112, 116, 105, 111, 110>>)
    \o <<58, 32>> \o json_string(movie.description) \o <<10>>
    \o Indent(4) \o <<125>>

json_chunks(movies) ==
    IF movies = <<>> THEN <<<<91, 93>>>>
    ELSE [i \in 1..Len(movies) |-> json_chunk(movies[i], i = 1)] \o <<<<10, 93>>>>

\* what save_file writes to the file it has opened, in order
chunks(movies, file_format) ==
    CASE file_format = "txt" -> [i \in 1..Len(movies) |-> txt_chunk(movies[i])]
      [] file_format = "json" -> json_chunks(movies)
      [] file_format = "csv" -> csv_chunks(movies)
      [] OTHER -> <<>>

\* whether the encoding the file was opened with can encode the text
Encodable(t, file_format) ==
    file_format # "txt" \/ \A i \in 1..Len(t) : t[i] <= 255

\* save_file: the destination file and the exit status (0: the function
\* returned) for each way the writing can go.  `io` is "ok", "open" (open
\* raises an IOError) or "write" (the write call after `k` chunks raises one).
\* The first chunk the encoding cannot encode raises a UnicodeEncodeError, which
\* save_file does not catch; open(mode="w") has truncated the file by then.
save_file(movies, file, file_format, io, k) ==
    LET cs == chunks(movies, file_format)
        bad == {i \in 1..Len(cs) : ~Encodable(cs[i], file_format)}
        stop == IF io = "write" THEN k + 1 ELSE Len(cs) + 1
        fail == IF bad = {} THEN stop
                ELSE Min(stop, CHOOSE i \in bad : \A j \in bad : i <= j)
    IN  IF io = "open" THEN [file |-> file, status |-> 1]
        ELSE IF fail <= Len(cs)
             THEN [file |-> File(SubSeq(cs, 1, fail - 1)), status |-> 1]
             ELSE [file |-> File(cs), status |-> 0]

\* display_list: the lines printed
display_list(movies) ==
    Flatten([i \in 1..Len(movies) |->
        << str(movies[i].rank) \o <<41, 32>> \o movies[i].title,
           Description \o movies[i].description \o <<10>> >>])

(***************************************************************************)
(* check_for_updates: what it does for each outcome of its request.  `ok`  *)
(* is whether requests.get and raise_for_status succeed, `bytes` is        *)
(* response.content.  ret is "True", "False", or "exit" for sys.exit in    *)
(* the handler of RequestException; cache is CACHE_FILE as it is left;     *)
(* ops are the operations done on CACHE_FILE, in order.                    *)
(***************************************************************************)
\* check_for_updates that reports a change without storing the new digest
check_for_updates_stale(cached, ok, bytes) ==
    IF ~ok
    THEN [ret |-> "exit", hash |-> <<>>, cache |-> cached, ops |-> <<>>]
    ELSE IF cached.exists
         THEN IF cached.content = md5(bytes)
              THEN [ret |-> "False", hash |-> md5(bytes), cache |-> cached,
                    ops |-> <<"exists", "read">>]
              ELSE [ret |-> "True", hash |-> md5(bytes), cache |-> cached,
                    ops |-> <<"exists", "read">>]
         ELSE [ret |-> "True", hash |-> md5(bytes), cache |-> File(md5(bytes)),
               ops |-> <<"exists", "write">>]

\* check_for_updates that goes on as if the page had changed when its request
\* fails
check_for_updates_swallow(cached, ok, bytes) ==
    IF ~ok
    THEN [ret |-> "True", hash |-> <<>>, cache |-> cached, ops |-> <<>>]
    ELSE IF cached.exists
         THEN IF cached.content = md5(bytes)
              THEN [ret |-> "False", hash |-> md5(bytes), cache |-> cached,
                    ops |-> <<"exists", "read">>]
              ELSE [ret |-> "True", hash |-> md5(bytes), cache |-> File(md5(bytes)),
                    ops |-> <<"exists", "read", "write">>]
         ELSE [ret |-> "True", hash |-> md5(bytes), cache |-> File(md5(bytes)),
               ops |-> <<"exists", "write">>]

\* check_for_updates that does not create the cache file on the first run
check_for_updates_no_create(cached, ok, bytes) ==
    IF ~ok
    THEN [ret |-> "exit", hash |-> <<>>, cache |-> cached, ops |-> <<>>]
    ELSE IF cached.exists
         THEN IF cached.content = md5(bytes)
              THEN [ret |-> "False", hash |-> md5(bytes), cache |-> cached,
                    ops |-> <<"exists", "read">>]
              ELSE [ret |-> "True", hash |-> md5(bytes), cache |-> File(md5(bytes)),
                    ops |-> <<"exists", "read", "write">>]
         ELSE [ret |-> "True", hash |-> md5(bytes), cache |-> cached,
               ops |-> <<"exists">>]

check_for_updates(cached, ok, bytes) ==
    IF ~ok
    THEN [ret |-> "exit", hash |-> <<>>, cache |-> cached, ops |-> <<>>]
    ELSE IF cached.exists
         THEN IF cached.content = md5(bytes)
              THEN [ret |-> "False", hash |-> md5(bytes), cache |-> cached,
                    ops |-> <<"exists", "read">>]
              ELSE [ret |-> "True", hash |-> md5(bytes), cache |-> File(md5(bytes)),
                    ops |-> <<"exists", "read", "write">>]
         ELSE [ret |-> "True", hash |-> md5(bytes), cache |-> File(md5(bytes)),
               ops |-> <<"exists", "write">>]

\* main going on whatever check_for_updates returned
not_updated_ignored(check_updates, ret) == FALSE

\* main's `args.check_updates and not check_for_updates(args.url)`
not_updated(check_updates, ret) == check_updates /\ ret = "False"

\* load_site: the two sequences it returns, or "exit" for sys.exit in the
\* handler of RequestException
load_site(ok, p) ==
    IF ok
    THEN [ret |-> "ok", all_entries |-> p.titles, descriptions |-> p.descs]
    ELSE [ret |-> "exit", all_entries |-> <<>>, descriptions |-> <<>>]

\* the log entry of a request
Get(ok) == IF ok THEN "get:ok" ELSE "get:error"

(***************************************************************************)
(* The program: one run of main() after another.                           *)
(***************************************************************************)
ArgsSet ==
    [check_updates : BOOLEAN, filter : {<<>>, <<98>>}, sort : {"rank", "title"},
     display : BOOLEAN, format : {"txt", "json", "csv"}]

Init ==
    /\ page \in Pages
    /\ cache = NoFile
    /\ out = NoFile
    /\ args = [check_updates |-> FALSE, filter |-> <<>>, sort |-> "rank",
               display |-> FALSE, format |-> "txt"]
    /\ pc = "exit"
    /\ entries = <<>>
    /\ descriptions = <<>>
    /\ sorted_list = <<>>
    /\ console = <<>>
    /\ status = 0
    /\ updated = "none"
    /\ content_hash = <<>>
    /\ log = <<>>
    /\ history = <<>>
    /\ cache0 = NoFile
    /\ out0 = NoFile
    /\ runs = 0

\* A new process starts and parses its command line (main, up to parse_args).
ParseArgs ==
    /\ pc = "exit"
    /\ runs < MaxRuns
    /\ runs' = runs + 1
    /\ args' \in ArgsSet
    /\ pc' = "check"
    /\ entries' = <<>>
    /\ descriptions' = <<>>
    /\ sorted_list' = <<>>
    /\ console' = <<>>
    /\ status' = -1
    /\ updated' = "none"
    /\ content_hash' = <<>>
    /\ log' = <<>>
    /\ cache0' = cache
    /\ out0' = out
    /\ UNCHANGED <<page, cache, out, history>>

\* sys.exit(message), and an exception nothing catches: the process ends
Exit(code) ==
    /\ pc' = "exit"
    /\ status' = code

\* `if args.check_updates and not check_for_updates(args.url): sys.exit(...)`
\* with the whole of check_for_updates
CheckUpdates ==
    /\ pc = "check"
    /\ IF args.check_updates
       THEN \E ok \in BOOLEAN :
              LET r == check_for_updates(cache, ok, content(page))
              IN  /\ content_hash' = r.hash
                  /\ cache' = r.cache
                  /\ log' = Append(log, Get(ok)) \o r.ops
                  /\ updated' = IF r.ret = "exit" THEN updated ELSE r.ret
                  /\ history' = IF r.ret = "exit" THEN history
                                ELSE Append(history, [bytes |-> content(page),
                                                      ret |-> r.ret])
                  /\ IF r.ret = "exit" \/ not_updated(args.check_updates, r.ret)
                     THEN Exit(1)
                     ELSE pc' = "load" /\ UNCHANGED status
       ELSE /\ pc' = "load"
            /\ UNCHANGED <<content_hash, cache, log, updated, status, history>>
    /\ UNCHANGED <<page, out, args, entries, descriptions, sorted_list, console,
                   cache0, out0, runs>>

\* entries, descriptions = load_site(args.url)
LoadSite ==
    /\ pc = "load"
    /\ \E ok \in BOOLEAN :
          LET r == load_site(ok, page)
          IN  /\ log' = Append(log, Get(ok))
              /\ entries' = r.all_entries
              /\ descriptions' = r.descriptions
              /\ IF r.ret = "exit"
                 THEN Exit(1)
                 ELSE pc' = "filter" /\ UNCHANGED status
    /\ UNCHANGED <<page, cache, out, args, sorted_list, console, updated,
                   content_hash, history, cache0, out0, runs>>

\* `if args.filter: entries = [...]`
FilterEntries ==
    /\ pc = "filter"
    /\ entries' = filter_entries(entries, args.filter)
    /\ pc' = "sort"
    /\ UNCHANGED <<page, cache, out, args, descriptions, sorted_list, console,
                   status, updated, content_hash, log, history, cache0, out0, runs>>

\* sorted_list = sort_entries(entries, descriptions, sort_by=args.sort)
SortEntries ==
    /\ pc = "sort"
    /\ sorted_list' = sort_entries(entries, descriptions, args.sort)
    /\ pc' = "display"
    /\ UNCHANGED <<page, cache, out, args, entries, descriptions, console,
                   status, updated, content_hash, log, history, cache0, out0, runs>>

\* `if args.display: display_list(sorted_list)`
DisplayList ==
    /\ pc = "display"
    /\ console' = IF args.display THEN display_list(sorted_list) ELSE console
    /\ pc' = "save"
    /\ UNCHANGED <<page, cache, out, args, entries, descriptions, sorted_list,
                   status, updated, content_hash, log, history, cache0, out0, runs>>

\* save_file(sorted_list, args.output, file_format=args.format), then the end
\* of main
SaveFile ==
    /\ pc = "save"
    /\ \E io \in {"ok", "open", "write"} :
       \E k \in 0..Len(chunks(sorted_list, args.format)) :
          /\ io = "write" => k < Len(chunks(sorted_list, args.format))
          /\ io # "write" => k = 0
          /\ LET r == save_file(sorted_list, out, args.format, io, k)
             IN  /\ out' = r.file
                 /\ Exit(r.status)
    /\ UNCHANGED <<page, cache, args, entries, descriptions, sorted_list,
                   console, updated, content_hash, log, history, cache0, out0, runs>>

\* The site's content changes.  The program sees the site only through its
\* requests, so a change is taken when a request is about to be made.
SiteChanges ==
    /\ pc \in {"check", "load"}
    /\ page' \in Pages \ {page}
    /\ UNCHANGED <<cache, out, args, pc, entries, descriptions, sorted_list,
                   console, status, updated, content_hash, log, history,
                   cache0, out0, runs>>

Next ==
    \/ ParseArgs
    \/ CheckUpdates
    \/ LoadSite
    \/ FilterEntries
    \/ SortEntries
    \/ DisplayList
    \/ SaveFile
    \/ SiteChanges

Spec == Init /\ [][Next]_vars

(***************************************************************************)
(* The list processing alone, on every page within the bounds: a run       *)
(* without --check-updates whose load_site has just returned.              *)
(***************************************************************************)
InitProcess ==
    /\ \E t \in SeqsUpTo(TitleTexts, MaxLen), d \in SeqsUpTo(DescTexts, MaxLen) :
          /\ page = Page(t, d)
          /\ entries = t
          /\ descriptions = d
    /\ cache = NoFile
    /\ out = NoFile
    /\ args \in [check_updates : {FALSE}, filter : Keywords,
                 sort : {"rank", "title"}, display : {FALSE}, format : {"txt"}]
    /\ pc = "filter"
    /\ sorted_list = <<>>
    /\ console = <<>>
    /\ status = -1
    /\ updated = "none"
    /\ content_hash = <<>>
    /\ log = <<"get:ok">>
    /\ history = <<>>
    /\ cache0 = NoFile
    /\ out0 = NoFile
    /\ runs = 1

NextProcess ==
    \/ FilterEntries
    \/ SortEntries

ProcessSpec == InitProcess /\ [][NextProcess]_vars

(***************************************************************************)
(* Properties of the list processing (under ProcessSpec).                  *)
(***************************************************************************)
Ranks(movies) == {movies[i].rank : i \in 1..Len(movies)}
Titles(movies) == {movies[i].title : i \in 1..Len(movies)}
SameLength == Len(page.titles) = Len(page.descs)

\* C1: without a filter, a page with N titles and N descriptions gives N
\* records with the ranks 1..N, and the record of rank r holds the r-th title
\* from the end of the page with the description at the same page position.
C1_RanksCountFromPageEnd ==
    (pc = "display" /\ args.filter = <<>> /\ SameLength) =>
        LET N == Len(page.titles)
        IN  /\ Len(sorted_list) = N
            /\ Ranks(sorted_list) = 1..N
            /\ \A i \in 1..N :
                 LET p == N + 1 - sorted_list[i].rank
                 IN  /\ sorted_list[i].title = strip(page.titles[p])
                     /\ sorted_list[i].description = strip(page.descs[p])

\* titles [C, B, A] with descriptions [dC, dB, dA], no filter, sort by rank
C1_Witness ==
    /\ pc = "display"
    /\ args.filter = <<>>
    /\ args.sort = "rank"
    /\ page.titles = <<<<67>>, <<66>>, <<65>>>>
    /\ page.descs = <<<<100, 67>>, <<100, 66>>, <<32, 100, 65>>>>
    /\ sorted_list = <<[rank |-> 1, title |-> <<65>>, description |-> <<100, 65>>],
                       [rank |-> 2, title |-> <<66>>, description |-> <<100, 66>>],
                       [rank |-> 3, title |-> <<67>>, description |-> <<100, 67>>]>>

\* C2: on a page with as many titles as descriptions, every record of a run,
\* filtered or not, carries the description at its own title's page position.
C2_RecordKeepsOwnDescription ==
    (pc = "display" /\ SameLength) =>
        \A i \in 1..Len(sorted_list) :
            \E p \in 1..Len(page.titles) :
                /\ sorted_list[i].title = strip(page.titles[p])
                /\ sorted_list[i].description = strip(page.descs[p])

\* the page positions whose title holds the keyword, whatever the case
Matching(keyword) ==
    {p \in 1..Len(page.titles) : Contains(lower(keyword), lower(page.titles[p]))}

\* C3: with a filter keyword, on a page with as many titles as descriptions,
\* the titles of the result are exactly the extracted titles that hold the
\* keyword whatever the case, the ranks are 1..M for the M matching titles, and
\* the run goes on (also with M = 0, where the list is empty).
C3_FilterKeepsExactlyMatching ==
    (pc = "display" /\ args.filter # <<>> /\ SameLength) =>
        LET M == Matching(args.filter)
        IN  /\ Len(sorted_list) = Cardinality(M)
            /\ Titles(sorted_list) = {strip(page.titles[p]) : p \in M}
            /\ Ranks(sorted_list) = 1..Cardinality(M)
            /\ (M = {} => sorted_list = <<>>)
            /\ status = -1

\* the keyword "b" keeps the two titles "B" of a page of three titles
C3_Witness ==
    /\ pc = "display"
    /\ args.filter = <<98>>
    /\ SameLength
    /\ Len(page.titles) = 3
    /\ Cardinality(Matching(args.filter)) = 2
    /\ Len(sorted_list) = 2
    /\ Titles(sorted_list) = {<<66>>}

\* C8: sorted by title the list has its titles in non-decreasing order and
\* holds the records as built, each with the rank it was given; sorted by rank
\* it is the list as built, and sorting it by rank again changes nothing.
C8_SortOrders ==
    pc = "display" =>
        LET built == build_movies(entries, descriptions)
        IN  /\ Len(sorted_list) = Len(built)
            /\ \A r \in 1..Len(built) :
                 \E i \in 1..Len(sorted_list) : sorted_list[i] = built[r]
            /\ args.sort = "title" =>
                 \A i, j \in 1..Len(sorted_list) :
                    i < j => ~StrLess(sorted_list[j].title, sorted_list[i].title)
            /\ args.sort = "rank" =>
                 /\ sorted_list = built
                 /\ \A i \in 1..Len(sorted_list) : sorted_list[i].rank = i
                 /\ list_sort(sorted_list, "rank") = sorted_list

\* a sort by title that moved records
C8_Witness ==
    /\ pc = "display"
    /\ args.sort = "title"
    /\ Len(sorted_list) = 3
    /\ sorted_list # build_movies(entries, descriptions)
    /\ sorted_list[1].rank = 3

\* C9: sort_entries on T titles and D descriptions gives min(T, D) records,
\* the record of rank r pairing the r-th title from the end with the r-th
\* description from the end, and raises nothing.
C9_PairsFromTheEnd ==
    pc = "display" =>
        LET T == Len(entries)
            D == Len(descriptions)
        IN  /\ Len(sorted_list) = Min(T, D)
            /\ Ranks(sorted_list) = 1..Min(T, D)
            /\ \A i \in 1..Min(T, D) :
                 LET r == sorted_list[i].rank
                 IN  /\ sorted_list[i].title = strip(entries[T + 1 - r])
                     /\ sorted_list[i].description = strip(descriptions[D + 1 - r])
            /\ status = -1

\* three titles and one description: the first two titles are dropped
C9_Witness ==
    /\ pc = "display"
    /\ args.filter = <<>>
    /\ Len(entries) = 3
    /\ Len(descriptions) = 1
    /\ Len(sorted_list) = 1
    /\ sorted_list[1].title = strip(entries[3])

(***************************************************************************)
(* Properties of the runs (under Spec).                                    *)
(***************************************************************************)
IsGet(e) == e \in {"get:ok", "get:error"}
Gets == SelectSeq(log, IsGet)
LastCheck == history[Len(history)]

\* C4: a check_for_updates whose request succeeded returns False exactly when
\* the cache file existed and held the digest of the bytes fetched, and leaves
\* the cache file holding that digest; of two consecutive calls the second
\* returns False on the same bytes and True on bytes of another digest.
C4_ChangeDetector ==
    /\ updated # "none" =>
         LET d == md5(LastCheck.bytes)
         IN  /\ updated = LastCheck.ret
             /\ content_hash = d
             /\ updated = "False" <=> (cache0.exists /\ cache0.content = d)
             /\ updated = "True" <=> ~(cache0.exists /\ cache0.content = d)
             /\ cache = File(d)
    /\ \A n \in 2..Len(history) :
         /\ history[n].bytes = history[n - 1].bytes => history[n].ret = "False"
         /\ md5(history[n].bytes) # md5(history[n - 1].bytes) =>
              history[n].ret = "True"

\* a second call on the same bytes has returned False
C4_Witness ==
    /\ Len(history) = 2
    /\ history[2].bytes = history[1].bytes
    /\ history[1].ret = "True"
    /\ updated = "False"
    /\ cache = File(md5(history[2].bytes))

\* C5: a run ends either with status 0 and the destination file holding the
\* whole serialization of the final list, or with the destination file as it
\* was when the run started.
C5_AllOrNothing ==
    (pc = "exit" /\ runs >= 1) =>
        \/ status = 0 /\ out = File(chunks(sorted_list, args.format))
        \/ status # 0 /\ out = out0

\* C6: when check_for_updates returns False the run is over with a non-zero
\* status, after one request, with nothing displayed and with the destination
\* file and the cache file as they were; without --check-updates
\* check_for_updates is not called and the cache file is not touched.
C6_UnchangedStopsTheRun ==
    /\ updated = "False" =>
         /\ pc = "exit"
         /\ status > 0
         /\ Gets = <<"get:ok">>
         /\ entries = <<>> /\ descriptions = <<>> /\ sorted_list = <<>>
         /\ console = <<>>
         /\ out = out0
         /\ cache = cache0
    /\ ~args.check_updates =>
         /\ updated = "none"
         /\ content_hash = <<>>
         /\ Gets = log
         /\ cache = cache0

\* a run stopped by an unchanged page, an earlier run having written the output
C6_Witness ==
    /\ updated = "False"
    /\ pc = "exit"
    /\ status = 1
    /\ out0.exists
    /\ out = out0

\* C7: when the request of check_for_updates fails the run is over with a
\* non-zero status, that request is the only one, and the destination file and
\* the cache file are as they were.
C7_FailedCheckIsFatal ==
    (args.check_updates /\ log # <<>> /\ log[1] = "get:error") =>
        /\ pc = "exit"
        /\ status > 0
        /\ log = <<"get:error">>
        /\ updated = "none"
        /\ out = out0
        /\ cache = cache0

\* the request failed in a run that found a cache file: the file is kept
C7_Witness ==
    /\ args.check_updates
    /\ log = <<"get:error">>
    /\ pc = "exit"
    /\ status = 1
    /\ cache0.exists
    /\ cache = cache0

\* C10: when check_for_updates returns True the cache file holds the new
\* digest from then on, whatever happens later in the run, and it was written
\* before the request of load_site; and a run with --check-updates that finds
\* the digest of the page in the cache file ends without touching the
\* destination file, whether or not an output was ever written for that page.
C10_CacheWrittenFirst ==
    /\ updated = "True" =>
         /\ cache = File(content_hash)
         /\ \E w \in 1..Len(log) :
              /\ log[w] = "write"
              /\ \A i \in 2..Len(log) : IsGet(log[i]) => w < i
    /\ (updated # "none" /\ cache0 = File(md5(LastCheck.bytes))) =>
         /\ updated = "False"
         /\ pc = "exit"
         /\ out = out0

\* the first run stored the digest and failed before writing; the second run,
\* on the same page, has stopped with no output file in existence
C10_Witness ==
    /\ runs = 2
    /\ Len(history) = 2
    /\ history[1].ret = "True"
    /\ history[2].bytes = history[1].bytes
    /\ updated = "False"
    /\ pc = "exit"
    /\ ~out.exists
    /\ cache = File(md5(content(page)))

====
